---- MODULE Spec2Model ----
(***************************************************************************)
(* Model of paddle/fluid/framework/details/multi_devices_helper.cc:         *)
(* TrySeparateToMultipleSingleDeviceGraphs (the partitioning pass) and      *)
(* HasDropLastReadOp / HasKeepLastReadOp (the read-op scan).                *)
(*                                                                         *)
(* A graph is a set of nodes plus named attributes.  Operator handles are   *)
(* numbered 1..Len(ops), variable handles 1..Len(var_handles).  The input/output   *)
(* lists of an operator are derived from the variables' generated_op and    *)
(* pending_ops fields, which is the invariant OpHandleBase::AddInput and    *)
(* AddOutput maintain.                                                      *)
(***************************************************************************)
EXTENDS Integers, Sequences, FiniteSets

VARIABLES program, ops, var_handles, unreg, optAttrs,
          graph, graphs, pc, opI, varK, result, moved, scanRet

vars == <<program, ops, var_handles, unreg, optAttrs,
              graph, graphs, pc, opI, varK, result, moved, scanRet>>

(* ------------------------------ bounds --------------------------------- *)
MaxOps == 3
MaxVars == 1
MaxDevIdx == 1
MaxBlocks == 2

Dev == 0..MaxDevIdx

(* ---------------------------- constants -------------------------------- *)
kUndefinedDevIdx == -1

kMultiDeviceOps ==
  {"sync_batch_norm", "sync_batch_norm_grad", "allreduce", "c_allreduce_sum",
   "c_allreduce_prod", "c_allreduce_min", "c_allreduce_max", "c_allgather",
   "c_reducescatter", "c_broadcast", "c_comm_init", "c_comm_init_all",
   "c_gen_nccl_id", "c_sync_comm_stream", "send", "recv", "send_barrier",
   "fetch_barrier"}

kGraphVars == "vars"
kGraphDepVars == "dep_vars"
kProgramDescs == "program_descs"
kFusedVars == "fused_vars"

(* ------------------------------ nodes ---------------------------------- *)
OpNode(i) == <<"op", i>>
VarNode(j) == <<"var", j>>
OpNodes == {OpNode(i) : i \in DOMAIN ops}
VarNodes == {VarNode(j) : j \in DOMAIN var_handles}
AllNodes == OpNodes \cup VarNodes

VarName(j) == j

(* op->Inputs(): the variables that list op i among their pending ops *)
RECURSIVE InputsFrom(_, _)
InputsFrom(i, j) ==
  IF j > Len(var_handles) THEN <<>>
  ELSE (IF i \in var_handles[j].pending THEN <<j>> ELSE <<>>) \o InputsFrom(i, j + 1)

Inputs(i) == InputsFrom(i, 1)

(* op->Outputs(): the variables whose generated op is op i *)
RECURSIVE OutputsFrom(_, _)
OutputsFrom(i, j) ==
  IF j > Len(var_handles) THEN <<>>
  ELSE (IF var_handles[j].gen = i THEN <<j>> ELSE <<>>) \o OutputsFrom(i, j + 1)

Outputs(i) == OutputsFrom(i, 1)

InOutsInputsOnly(i) == Inputs(i)

InOuts(i) == Inputs(i) \o Outputs(i)

(* ------------------------- device assignment --------------------------- *)
GetScopeIdxFromOp(op) ==
  IF op.kind = "computation"
  THEN (IF op.type \notin kMultiDeviceOps THEN op.scope_idx ELSE kUndefinedDevIdx)
  ELSE IF op.kind = "eager_deletion" THEN op.scope_idx
  ELSE IF op.kind = "share_tensor_buffer" THEN op.scope_idx
  ELSE kUndefinedDevIdx

RECURSIVE UniqueFrom(_, _, _)
UniqueFrom(i, dev_idx, k) ==
  IF k > Len(InOuts(i)) THEN dev_idx
  ELSE LET var == var_handles[InOuts(i)[k]] IN
       IF var.dummy THEN UniqueFrom(i, dev_idx, k + 1)
       ELSE IF dev_idx # var.scope_idx THEN kUndefinedDevIdx
       ELSE UniqueFrom(i, dev_idx, k + 1)

GetUniqueDeviceIdOfOpNoVarCheck(i) == GetScopeIdxFromOp(ops[i])

GetUniqueDeviceIdOfOp(i) ==
  LET dev_idx == GetScopeIdxFromOp(ops[i]) IN
  IF dev_idx = kUndefinedDevIdx THEN kUndefinedDevIdx
  ELSE UniqueFrom(i, dev_idx, 1)

(* ------------------------- program veto scan --------------------------- *)
RECURSIVE BlockHasMultiDeviceOp(_, _)
BlockHasMultiDeviceOp(block, k) ==
  IF k > Len(block) THEN FALSE
  ELSE IF block[k] \in kMultiDeviceOps THEN TRUE
  ELSE BlockHasMultiDeviceOp(block, k + 1)

RECURSIVE ContainFrom(_, _)
ContainFrom(prog, block_idx) ==
  IF block_idx >= Len(prog) THEN FALSE
  ELSE IF BlockHasMultiDeviceOp(prog[block_idx + 1], 1) THEN TRUE
  ELSE ContainFrom(prog, block_idx + 1)

ContainMultiDeviceOpSkipOne(prog, begin_block_idx) ==
  ContainFrom(prog, begin_block_idx + 1)

ContainMultiDeviceOp(prog, begin_block_idx) == ContainFrom(prog, begin_block_idx)

(* --------------------- checks of TrySeparate... ------------------------ *)
op_handles == DOMAIN ops

op_to_dev_idx(i) == GetUniqueDeviceIdOfOp(i)

HasUndetermined == \E i \in op_handles : GetUniqueDeviceIdOfOp(i) = kUndefinedDevIdx

RECURSIVE MaxPlace(_, _)
MaxPlace(i, acc) ==
  IF i > Len(ops) THEN acc
  ELSE MaxPlace(i + 1, IF op_to_dev_idx(i) + 1 > acc THEN op_to_dev_idx(i) + 1 ELSE acc)

place_num == MaxPlace(1, 0)

CrossDeviceDependencyMissingOnly ==
  \E i \in op_handles :
    \/ \E k \in 1..Len(Inputs(i)) :
         LET in_var == var_handles[Inputs(i)[k]] IN
         in_var.gen # 0 /\ in_var.gen \notin op_handles
    \/ \E k \in 1..Len(Outputs(i)) :
         \E pending_op \in var_handles[Outputs(i)[k]].pending :
           pending_op \notin op_handles

CrossDeviceDependency ==
  \E i \in op_handles :
    \/ \E k \in 1..Len(Inputs(i)) :
         LET in_var == var_handles[Inputs(i)[k]] IN
         /\ in_var.gen # 0
         /\ \/ in_var.gen \notin op_handles
            \/ op_to_dev_idx(in_var.gen) # op_to_dev_idx(i)
    \/ \E k \in 1..Len(Outputs(i)) :
         \E pending_op \in var_handles[Outputs(i)[k]].pending :
           \/ pending_op \notin op_handles
           \/ op_to_dev_idx(pending_op) # op_to_dev_idx(i)

IsSinglePlaceZero == place_num = 0

IsSinglePlace == place_num = 1

(* ------------------------------ state ---------------------------------- *)
OpChoices ==
  [kind : {"computation"}, type : {"mul", "allreduce"}, scope_idx : Dev,
   drop_last : {FALSE}]
  \cup [kind : {"eager_deletion", "share_tensor_buffer"}, type : {"none"},
        scope_idx : Dev, drop_last : {FALSE}]
  \cup [kind : {"other"}, type : {"none"}, scope_idx : {0}, drop_last : {FALSE}]

SeqsUpTo(S, n) == UNION {[1..k -> S] : k \in 0..n}

(* a variable handle is never both an output and an input of one op: the
   graph builder gives every output a fresh version *)
VarChoices(n) ==
  {v \in [dummy : {TRUE}, scope_idx : {0}, gen : 0..n, pending : SUBSET (1..n)]
          \cup [dummy : {FALSE}, scope_idx : Dev, gen : 0..n,
                pending : SUBSET (1..n)] :
     v.gen \notin v.pending}

BlockChoices == {<<"mul">>, <<"mul", "c_allreduce_sum">>}

Programs == UNION {[1..k -> BlockChoices] : k \in 1..MaxBlocks}

DummyVars == {j \in DOMAIN var_handles : var_handles[j].dummy}

(* the source graph's per-device variable mapping as the builder left it *)
OriginVars ==
  [d \in Dev |-> {VarName(j) : j \in {x \in DOMAIN var_handles :
                     ~var_handles[x].dummy /\ var_handles[x].scope_idx = d /\ x \notin unreg}}]

OriginAttrs == {kGraphVars, kGraphDepVars} \cup optAttrs

OriginGraph ==
  [nodes |-> AllNodes, attrs |-> OriginAttrs, vars |-> OriginVars,
   dep_vars |-> DummyVars]

Init ==
  /\ program \in Programs
  /\ ops \in SeqsUpTo(OpChoices, MaxOps)
  /\ var_handles \in SeqsUpTo(VarChoices(Len(ops)), MaxVars)
  /\ unreg \in SUBSET {j \in DOMAIN var_handles : ~var_handles[j].dummy}
  /\ optAttrs \in {{}, {kProgramDescs, kFusedVars}}
  /\ graph = OriginGraph
  /\ graphs = <<>>
  /\ pc = "start"
  /\ opI = 0
  /\ varK = 0
  /\ result = <<>>
  /\ moved = [n \in AllNodes |-> 0]
  /\ scanRet = [fn |-> "none", ret |-> FALSE]

(* -------------------- TrySeparateToMultipleSingleDeviceGraphs ---------- *)
Return(r) ==
  /\ pc' = "returned"
  /\ result' = r
  /\ UNCHANGED <<program, ops, var_handles, unreg, optAttrs, graph, graphs,
                 opI, varK, moved, scanRet>>

(* line 124: a sub-block contains a multi-device op *)
AbortVeto ==
  /\ pc = "start"
  /\ ContainMultiDeviceOp(program, 1)
  /\ Return(<<>>)

(* line 130: no op handles *)
AbortEmpty ==
  /\ pc = "start"
  /\ ~ContainMultiDeviceOp(program, 1)
  /\ op_handles = {}
  /\ Return(<<>>)

(* lines 135-143: some op is not determined *)
AbortUndetermined ==
  /\ pc = "start"
  /\ ~ContainMultiDeviceOp(program, 1)
  /\ op_handles # {}
  /\ HasUndetermined
  /\ Return(<<>>)

(* lines 145-164: an op depends on an op of another device *)
AbortCrossDevice ==
  /\ pc = "start"
  /\ ~ContainMultiDeviceOp(program, 1)
  /\ op_handles # {}
  /\ ~HasUndetermined
  /\ CrossDeviceDependency
  /\ Return(<<>>)

(* line 174: place_num == 1 *)
AbortSinglePlace ==
  /\ pc = "start"
  /\ ~ContainMultiDeviceOp(program, 1)
  /\ op_handles # {}
  /\ ~HasUndetermined
  /\ ~CrossDeviceDependency
  /\ IsSinglePlace
  /\ Return(<<>>)

(* position of the transfer loop after finishing entry k-1 of op i's lists *)
Advance(i, k) == IF k <= Len(InOuts(i)) THEN <<i, k>> ELSE <<i + 1, 0>>

(* lines 178-183: the destination graphs, each with its two tables *)
Construct ==
  /\ pc = "start"
  /\ ~ContainMultiDeviceOp(program, 1)
  /\ op_handles # {}
  /\ ~HasUndetermined
  /\ ~CrossDeviceDependency
  /\ ~IsSinglePlace
  /\ graphs' = [g \in 1..place_num |->
                  [nodes |-> {}, attrs |-> {kGraphVars, kGraphDepVars},
                   vars |-> {}, dep_vars |-> {}]]
  /\ pc' = "transfer"
  /\ opI' = 1
  /\ varK' = 0
  /\ UNCHANGED <<program, ops, var_handles, unreg, optAttrs, graph, result,
                 moved, scanRet>>

DestIndexReversed(i) == place_num - op_to_dev_idx(i)

(* graphs[dev_idx] of line 187, as a 1-based position *)
DestIndex(i) == op_to_dev_idx(i) + 1

(* line 192: the op node changes owner *)
MoveOp ==
  /\ pc = "transfer"
  /\ opI <= Len(ops)
  /\ varK = 0
  /\ graph' = [graph EXCEPT !.nodes = @ \ {OpNode(opI)}]
  /\ graphs' = [graphs EXCEPT ![DestIndex(opI)].nodes = @ \cup {OpNode(opI)}]
  /\ moved' = [moved EXCEPT ![OpNode(opI)] = @ + 1]
  /\ opI' = Advance(opI, 1)[1]
  /\ varK' = Advance(opI, 1)[2]
  /\ UNCHANGED <<program, ops, var_handles, unreg, optAttrs, pc, result, scanRet>>

StillInSourceAlways(j) == TRUE

(* line 196: graph->Nodes().count(var->Node()) > 0 *)
StillInSource(j) == VarNode(j) \in graph.nodes

(* lines 195-197: one entry of op->Inputs() / op->Outputs(); a node still in
   the source graph changes owner, any other entry is skipped *)
HandleVar ==
  /\ pc = "transfer"
  /\ opI <= Len(ops)
  /\ varK >= 1
  /\ LET j == InOuts(opI)[varK] IN
     IF ~StillInSource(j)
     THEN /\ opI' = Advance(opI, varK + 1)[1]
          /\ varK' = Advance(opI, varK + 1)[2]
          /\ UNCHANGED <<graph, graphs, moved, pc>>
     ELSE /\ graph' = [graph EXCEPT !.nodes = @ \ {VarNode(j)}]
          /\ graphs' = [graphs EXCEPT ![DestIndex(opI)].nodes = @ \cup {VarNode(j)}]
          /\ moved' = [moved EXCEPT ![VarNode(j)] = @ + 1]
          /\ pc' = "record"
          /\ UNCHANGED <<opI, varK>>
  /\ UNCHANGED <<program, ops, var_handles, unreg, optAttrs, result, scanRet>>

(* lines 198-203: the moved variable is entered in the destination's tables *)
RecordVar ==
  /\ pc = "record"
  /\ LET j == InOuts(opI)[varK]
         g == DestIndex(opI)
         dev_idx == op_to_dev_idx(opI)
     IN
     IF var_handles[j].dummy
     THEN /\ graphs' = [graphs EXCEPT ![g].dep_vars = @ \cup {j}]
          /\ pc' = "transfer"
          /\ opI' = Advance(opI, varK + 1)[1]
          /\ varK' = Advance(opI, varK + 1)[2]
     ELSE IF VarName(j) \in graph.vars[dev_idx]
     THEN /\ graphs' = [graphs EXCEPT ![g].vars = @ \cup {VarName(j)}]
          /\ pc' = "transfer"
          /\ opI' = Advance(opI, varK + 1)[1]
          /\ varK' = Advance(opI, varK + 1)[2]
     ELSE (* origin_vars.at(name) throws std::out_of_range; unwinding
             destroys `graphs` and the nodes they own *)
          /\ graphs' = <<>>
          /\ pc' = "thrown"
          /\ UNCHANGED <<opI, varK>>
  /\ UNCHANGED <<program, ops, var_handles, unreg, optAttrs, graph, result,
                 moved, scanRet>>

(* lines 212-219: erase the two tables, copy the optional attributes, return *)
Cleanup ==
  /\ pc = "transfer"
  /\ opI > Len(ops)
  /\ graph' = [graph EXCEPT !.attrs = @ \ {kGraphVars, kGraphDepVars},
                            !.vars = [d \in Dev |-> {}],
                            !.dep_vars = {}]
  /\ graphs' = [g \in DOMAIN graphs |->
                  [graphs[g] EXCEPT !.attrs =
                     @ \cup (graph.attrs \cap {kProgramDescs, kFusedVars})]]
  /\ result' = graphs'
  /\ pc' = "returned"
  /\ UNCHANGED <<program, ops, var_handles, unreg, optAttrs, opI, varK, moved,
                 scanRet>>

Next ==
  \/ AbortVeto
  \/ AbortEmpty
  \/ AbortUndetermined
  \/ AbortCrossDevice
  \/ AbortSinglePlace
  \/ Construct
  \/ MoveOp
  \/ HandleVar
  \/ RecordVar
  \/ Cleanup

Spec == Init /\ [][Next]_vars

(* ------------------ HasDropLastReadOp / HasKeepLastReadOp -------------- *)
RECURSIVE ScanAnyTypeFrom(_, _)
ScanAnyTypeFrom(i, drop_last) ==
  IF i > Len(ops) THEN FALSE
  ELSE IF /\ OpNode(i) \in graph.nodes
          /\ ops[i].kind = "computation"
          /\ ops[i].drop_last = drop_last
       THEN TRUE
       ELSE ScanAnyTypeFrom(i + 1, drop_last)

HasDropLastReadOpImplAnyType(drop_last) == ScanAnyTypeFrom(1, drop_last)

RECURSIVE ScanFrom(_, _)
ScanFrom(i, drop_last) ==
  IF i > Len(ops) THEN FALSE
  ELSE IF /\ OpNode(i) \in graph.nodes
          /\ ops[i].kind = "computation"
          /\ ops[i].type = "read"
          /\ ops[i].drop_last = drop_last
       THEN TRUE
       ELSE ScanFrom(i + 1, drop_last)

HasDropLastReadOpImpl(drop_last) == ScanFrom(1, drop_last)

HasDropLastReadOp ==
  /\ pc = "start"
  /\ scanRet' = [fn |-> "HasDropLastReadOp", ret |-> HasDropLastReadOpImpl(TRUE)]
  /\ UNCHANGED <<program, ops, var_handles, unreg, optAttrs, graph, graphs, pc,
                 opI, varK, result, moved>>

HasKeepLastReadOp ==
  /\ pc = "start"
  /\ scanRet' = [fn |-> "HasKeepLastReadOp", ret |-> HasDropLastReadOpImpl(FALSE)]
  /\ UNCHANGED <<program, ops, var_handles, unreg, optAttrs, graph, graphs, pc,
                 opI, varK, result, moved>>

ScanOpChoices ==
  [kind : {"computation"}, type : {"mul", "read"}, scope_idx : Dev,
   drop_last : BOOLEAN]
  \cup [kind : {"eager_deletion"}, type : {"none"}, scope_idx : Dev,
        drop_last : {FALSE}]
  \cup [kind : {"other"}, type : {"none"}, scope_idx : {0}, drop_last : {FALSE}]

ScanInit ==
  /\ program = <<<<"read", "mul">>>>
  /\ ops \in SeqsUpTo(ScanOpChoices, MaxOps)
  /\ var_handles = <<>>
  /\ unreg = {}
  /\ optAttrs = {}
  /\ graph = OriginGraph
  /\ graphs = <<>>
  /\ pc = "start"
  /\ opI = 0
  /\ varK = 0
  /\ result = <<>>
  /\ moved = [n \in AllNodes |-> 0]
  /\ scanRet = [fn |-> "none", ret |-> FALSE]

ScanNext ==
  \/ HasDropLastReadOp
  \/ HasKeepLastReadOp

ScanSpec == ScanInit /\ [][ScanNext]_vars

(* ============================== claims ================================= *)
Finished == pc \in {"returned", "thrown"}
Succeeded == pc = "returned" /\ result # <<>>
GraphUnchanged == graph = OriginGraph
ResultNodes == UNION {result[g].nodes : g \in DOMAIN result}
IncidentOps(j) ==
  {i \in DOMAIN ops : var_handles[j].gen = i \/ i \in var_handles[j].pending}
SubBlockHasCommOp ==
  \E b \in 2..Len(program) :
    \E k \in DOMAIN program[b] : program[b][k] \in kMultiDeviceOps

(* C1: every run ends either with a non-empty partition or with the input
   graph unchanged; no run ends with nodes moved out and nothing returned. *)
C1_AllOrNothing == Finished => (Succeeded \/ GraphUnchanged)

(* C2 as stated: on success the returned graphs together hold every node of
   the input graph, isolated variable nodes included, each in one graph. *)
C2_AllNodesPartitioned ==
  Succeeded =>
    /\ ResultNodes = AllNodes
    /\ \A g, h \in DOMAIN result : g # h => result[g].nodes \cap result[h].nodes = {}

(* C2 amended: on success the returned graphs together hold every operator
   node and every variable node that is an input or output of some operator,
   each in exactly one graph; variable nodes touching no operator stay in
   the source graph. *)
C2_IncidentNodesPartitioned ==
  Succeeded =>
    /\ ResultNodes = OpNodes \cup {VarNode(j) : j \in {x \in DOMAIN var_handles :
                                                       IncidentOps(x) # {}}}
    /\ graph.nodes = {VarNode(j) : j \in {x \in DOMAIN var_handles :
                                           IncidentOps(x) = {}}}
    /\ \A g, h \in DOMAIN result : g # h => result[g].nodes \cap result[h].nodes = {}

C2_Witness ==
  /\ Succeeded
  /\ \E j \in DOMAIN var_handles : VarNode(j) \in ResultNodes

(* C3: on success no operator in G_i has an input generated by an operator in
   G_j, nor an output consumed by an operator in G_j, for i # j. *)
C3_DependencySoundness ==
  Succeeded =>
    \A g, h \in DOMAIN result : g # h =>
      \A i \in DOMAIN ops : OpNode(i) \in result[g].nodes =>
        /\ \A j \in DOMAIN var_handles :
             (i \in var_handles[j].pending /\ var_handles[j].gen # 0)
               => OpNode(var_handles[j].gen) \notin result[h].nodes
        /\ \A j \in DOMAIN var_handles :
             var_handles[j].gen = i
               => \A p \in var_handles[j].pending : OpNode(p) \notin result[h].nodes

C3_Witness ==
  /\ Succeeded
  /\ \E j \in DOMAIN var_handles :
       var_handles[j].gen # 0 /\ var_handles[j].pending # {}

(* C4: on success every variable node is in the same returned graph as every
   operator that lists it among its inputs or outputs (no cross-device edge). *)
C4_NoCrossDeviceEdge ==
  Succeeded =>
    \A j \in DOMAIN var_handles : \A i \in IncidentOps(j) :
      \A g \in DOMAIN result :
        OpNode(i) \in result[g].nodes => VarNode(j) \in result[g].nodes

(* C5: an operator with a connected variable whose recorded device index
   differs from its own is classified Undetermined, and the call returns
   an empty sequence without assigning anything. *)
C5_Mismatch(i) ==
  /\ ops[i].kind # "other"
  /\ \E j \in DOMAIN var_handles :
       /\ i \in IncidentOps(j)
       /\ ~var_handles[j].dummy
       /\ var_handles[j].scope_idx # ops[i].scope_idx

C5_UndeterminedPropagates ==
  \A i \in DOMAIN ops : C5_Mismatch(i) =>
    /\ GetUniqueDeviceIdOfOp(i) = kUndefinedDevIdx
    /\ pc \in {"start", "returned"}
    /\ graphs = <<>>
    /\ result = <<>>
    /\ GraphUnchanged

C5_Witness ==
  /\ pc = "returned"
  /\ ~SubBlockHasCommOp
  /\ \E i \in DOMAIN ops : C5_Mismatch(i)
  /\ \A i \in DOMAIN ops : GetScopeIdxFromOp(ops[i]) # kUndefinedDevIdx

(* C6 as stated: a graph whose operators all resolve to one and the same
   device index is never partitioned and stays unchanged. *)
C6_AllResolveTo(d) ==
  /\ DOMAIN ops # {}
  /\ \A i \in DOMAIN ops : GetUniqueDeviceIdOfOp(i) = d

C6_SingleDeviceNeverPartitioned ==
  ((\E d \in Dev : C6_AllResolveTo(d)) /\ Finished) =>
    /\ pc = "returned"
    /\ result = <<>>
    /\ GraphUnchanged

(* C6 amended: a graph whose operators all resolve to device index 0 is
   never partitioned and stays unchanged. *)
C6_DeviceZeroNeverPartitioned ==
  (C6_AllResolveTo(0) /\ Finished) =>
    /\ pc = "returned"
    /\ result = <<>>
    /\ GraphUnchanged

C6_Witness ==
  /\ pc = "returned"
  /\ C6_AllResolveTo(0)
  /\ ~SubBlockHasCommOp
  /\ Len(ops) >= 2

(* C7: a communication operator in any block other than block 0 makes the
   call return an empty sequence and leave the graph's nodes and attribute
   tables as they were, whatever the operator nodes are. *)
C7_VetoIsNoOp ==
  SubBlockHasCommOp =>
    /\ pc \in {"start", "returned"}
    /\ result = <<>>
    /\ graphs = <<>>
    /\ GraphUnchanged

C7_Witness ==
  /\ pc = "returned"
  /\ SubBlockHasCommOp
  /\ ~HasUndetermined
  /\ ~CrossDeviceDependency
  /\ place_num >= 2

(* C8: HasDropLastReadOp (HasKeepLastReadOp) returns true exactly when the
   graph has a computation operator of type "read" whose drop_last is true
   (false); the scan leaves the graph unchanged. *)
C8_HasReadOp(v) ==
  \E i \in DOMAIN ops :
    ops[i].kind = "computation" /\ ops[i].type = "read" /\ ops[i].drop_last = v

C8_MarkerScan ==
  scanRet.fn # "none" =>
    /\ scanRet.fn = "HasDropLastReadOp" => (scanRet.ret <=> C8_HasReadOp(TRUE))
    /\ scanRet.fn = "HasKeepLastReadOp" => (scanRet.ret <=> C8_HasReadOp(FALSE))
    /\ GraphUnchanged

C8_Witness ==
  /\ scanRet.fn = "HasKeepLastReadOp"
  /\ ~scanRet.ret
  /\ C8_HasReadOp(TRUE)
  /\ \E i \in DOMAIN ops : ops[i].type = "mul" /\ ~ops[i].drop_last

(* C9: on success there are exactly (largest device index) + 1 graphs, at
   least 2, and the k-th graph holds exactly the operators of device k. *)
C9_DeviceOrder ==
  Succeeded =>
    /\ \E i \in DOMAIN ops : Len(result) = ops[i].scope_idx + 1
    /\ \A i \in DOMAIN ops : ops[i].scope_idx + 1 <= Len(result)
    /\ Len(result) >= 2
    /\ \A k \in DOMAIN result :
         result[k].nodes \cap OpNodes =
           {OpNode(i) : i \in {x \in DOMAIN ops : ops[x].scope_idx = k - 1}}

C9_Witness ==
  /\ Succeeded
  /\ \A k \in DOMAIN result : result[k].nodes \cap OpNodes # {}
  /\ \E k \in DOMAIN result : Cardinality(result[k].nodes \cap OpNodes) >= 2

(* C10: after each move step of the transfer (and once the graphs are
   returned) every node is owned by exactly one graph, and no node is moved
   twice: a shared variable is moved by the first operator that touches it
   and skipped by the later ones. *)
Owners(n) ==
  (IF n \in graph.nodes THEN 1 ELSE 0)
  + Cardinality({g \in DOMAIN graphs : n \in graphs[g].nodes})

C10_SingleOwner ==
  pc \in {"start", "transfer", "record", "returned"} =>
    \A n \in AllNodes :
      /\ Owners(n) = 1
      /\ moved[n] = (IF n \in graph.nodes THEN 0 ELSE 1)

C10_Witness ==
  /\ Succeeded
  /\ \E j \in DOMAIN var_handles :
       /\ Cardinality(IncidentOps(j)) >= 2
       /\ moved[VarNode(j)] = 1
       /\ Owners(VarNode(j)) = 1

====
